---- MODULE Spec2Model ----
(***************************************************************************)
(* ConfluenceCollatorFactory: one collection run (execute) of the          *)
(* Confluence search collator.  Strings are sequences of one-character     *)
(* strings, so that split, trim and the tag-removing replace are computed  *)
(* character by character as the JavaScript does.  JSON objects are        *)
(* records; an absent field is a field outside the record's DOMAIN.        *)
(***************************************************************************)
EXTENDS Integers, Sequences, FiniteSets, TLC

VARIABLES
  parallelismLimit, spaces, catalogClient,      \* fields set by the constructor
  pc,                                           \* position of execute()
  spacesList,                                   \* execute: const spacesList
  spaceIdx, allDocuments,                       \* getDocumentsFromSpaces: loop index, documentsList
  next, requestUrl, documentsList, listInFlight,\* getDocumentsFromSpace locals, pending get
  queue, activeCount, task, settled,            \* pLimit queue / counter, one promise per document
  documents, output,                            \* execute: const documents, values yielded so far
  warnings,                                     \* logger.warn calls, in order
  trace                                         \* history of I/O events of the run

vars == <<parallelismLimit, spaces, catalogClient, pc, spacesList, spaceIdx,
          allDocuments, next, requestUrl, documentsList, listInFlight, queue,
          activeCount, task, settled, documents, output, warnings, trace>>

-----------------------------------------------------------------------------
(* Bounds of the model *)

MaxDocs == 3          \* page references returned by the listing of a run
MaxListFetches == 3   \* list fetches of a run
MaxEntities == 2      \* catalog entities returned by getEntities
MaxAnnotationChars == 5 \* characters of the annotation values of a catalog answer
MaxBodyLen == 5       \* characters of a page body

(* Program constants *)

DefaultParallelismLimit == 15

-----------------------------------------------------------------------------
(* Strings *)

RECURSIVE SeqsUpTo(_, _)
SeqsUpTo(S, n) ==
  IF n = 0 THEN {<<>>}
  ELSE LET shorter == SeqsUpTo(S, n - 1)
       IN  shorter \cup {Append(s, c) : s \in {t \in shorter : Len(t) = n - 1}, c \in S}

RECURSIVE Flat(_)
Flat(ss) == IF ss = <<>> THEN <<>> ELSE Head(ss) \o Flat(Tail(ss))

IsWhiteSpace(c) == c \in {" ", "\t", "\n"}

\* Index of the first occurrence of character c in s at or after position i, 0 if none.
RECURSIVE IndexOf(_, _, _)
IndexOf(s, c, i) ==
  IF i > Len(s) THEN 0
  ELSE IF s[i] = c THEN i
  ELSE IndexOf(s, c, i + 1)

RECURSIVE trimStart(_)
trimStart(s) ==
  IF s # <<>> /\ IsWhiteSpace(Head(s)) THEN trimStart(Tail(s)) ELSE s

RECURSIVE trimEnd(_)
trimEnd(s) ==
  IF s # <<>> /\ IsWhiteSpace(s[Len(s)]) THEN trimEnd(SubSeq(s, 1, Len(s) - 1)) ELSE s

trim(s) == trimEnd(trimStart(s))

RECURSIVE split(_, _)
split(s, sep) ==
  LET i == IndexOf(s, sep, 1)
  IN  IF i = 0 THEN <<s>>
      ELSE <<SubSeq(s, 1, i - 1)>> \o split(SubSeq(s, i + 1, Len(s)), sep)

\* input.replace(/(<([^>]+)>)/gi, ''): leftmost matches, left to right.  At a '<'
\* the greedy [^>]+ runs to the first '>' after it and needs one character at least.
RECURSIVE replaceTags(_, _)
replaceTags(s, i) ==
  IF i > Len(s) THEN <<>>
  ELSE LET j == IF s[i] = "<" THEN IndexOf(s, ">", i + 1) ELSE 0
       IN  IF j >= i + 2
           THEN replaceTags(s, j + 1)
           ELSE <<s[i]>> \o replaceTags(s, i + 1)

\* a replace without the g flag: the first tag only
stripHtmlFirstOnly(input) ==
  LET starts == {i \in 1..Len(input) :
                   input[i] = "<" /\ IndexOf(input, ">", i + 1) >= i + 2}
  IN  IF starts = {} THEN input
      ELSE LET i == CHOOSE x \in starts : \A y \in starts : x <= y
           IN  SubSeq(input, 1, i - 1)
                 \o SubSeq(input, IndexOf(input, ">", i + 1) + 1, Len(input))

stripHtml(input) == replaceTags(input, 1)

-----------------------------------------------------------------------------
(* Configuration and the wiki's answers *)

wikiUrl == <<"w">>                     \* confluence.wikiUrl
ContentQuery == <<"?">>                \* /rest/api/content?limit=1000&status=current&spaceKey=
ExpandQuery == <<"!">>                 \* ?expand=body.storage,space,ancestors,version

Refs == <<(<<"a">>), (<<"b">>)>>       \* self links of pages
RefSet == {Refs[r] : r \in 1..Len(Refs)}
RefList(n) == [i \in 1..n |-> Refs[((i - 1) % Len(Refs)) + 1]]

\* An HTTP response: not ok; ok with a body that is not JSON; ok with a JSON body.
NonOk == [ok |-> FALSE]
Unparsable == [ok |-> TRUE, parsable |-> FALSE]
Json(d) == [ok |-> TRUE, parsable |-> TRUE, json |-> d]

Has(obj, field) == field \in DOMAIN obj

\* ConfluenceDocumentList: results? and _links.next? are optional
ListItem(ref) == [links |-> [self |-> ref]]
ListData(hasResults, refs, hasNext, path) ==
  LET links == IF hasNext THEN [base |-> wikiUrl, next |-> path] ELSE [base |-> wikiUrl]
  IN  IF hasResults
      THEN [results |-> [i \in 1..Len(refs) |-> ListItem(refs[i])], links |-> links]
      ELSE [links |-> links]

\* ConfluenceDocument of the page at ref, with or without status and space
DetailData(ref, hasStatus, status, hasSpace, body) ==
  LET core == [title |-> "T", links |-> [webui |-> ref],
               body |-> [storage |-> [value |-> body]],
               ancestors |-> << [title |-> "A", links |-> [webui |-> <<"/", "A">>]] >>,
               version |-> [by |-> [publicName |-> "U"], when |-> "W", friendlyWhen |-> "F"]]
      spaced == IF hasSpace
                THEN core @@ [space |-> [key |-> "K", name |-> "N", links |-> [webui |-> <<"/", "K">>]]]
                ELSE core
  IN  IF hasStatus THEN spaced @@ [status |-> status] ELSE spaced

-----------------------------------------------------------------------------
(* get<T>(requestUrl) *)

\* The outcome of an awaited call: a value, or an error with the URL its message holds
\* (<<>> when the message holds none).
Returned(v) == [threw |-> FALSE, value |-> v]
Threw(url) == [threw |-> TRUE, errorUrl |-> url]

Warning(site, url) == [site |-> site, url |-> url]

\* res.ok is false: throws Error(`Request failed with ...`); res.json() of a body that
\* is not JSON rejects with node-fetch's FetchError `invalid json response body at <url>`.
\* an answer that is not ok or not JSON read as the empty object
getLenient(res, url) ==
  IF ~res.ok \/ ~res.parsable THEN Returned(<<>>) ELSE Returned(res.json)

get(res, url) ==
  IF ~res.ok THEN Threw(<<>>)
  ELSE IF ~res.parsable THEN Threw(url)
  ELSE Returned(res.json)

\* logger.warn('non-ok response from confluence', requestUrl, ...)
getWarnings(res, url) ==
  IF ~res.ok THEN << Warning("get", url) >> ELSE <<>>

-----------------------------------------------------------------------------
(* getSpaces *)

fromConfigLimit(option) == IF option = 0 THEN DefaultParallelismLimit ELSE option

\* the tokens as split leaves them
annotationSpacesUntrimmed(annotation) == split(annotation, ",")

annotationSpaces(annotation) ==
  LET tokens == split(annotation, ",")
  IN  [i \in 1..Len(tokens) |-> trim(tokens[i])]

getSpaces(client, staticSpaces, items) ==
  IF client
  THEN Flat([e \in 1..Len(items) |-> annotationSpaces(items[e])])
  ELSE staticSpaces

-----------------------------------------------------------------------------
(* getDocumentInfo *)

Truthy(str) == str # <<>>

ancestorRef(ancestor) ==
  [title |-> ancestor.title, location |-> wikiUrl \o ancestor.links.webui]

\* only a status that is there and differs from 'current' excludes the page
statusExcludedIfPresent(data) == Has(data, "status") /\ data.status # "current"

\* if (!data.status || data.status !== 'current') return []
statusExcluded(data) == ~Has(data, "status") \/ data.status # "current"

getDocumentInfo(documentUrl, res) ==
  LET got == get(res, documentUrl \o ExpandQuery)
      data == got.value
  IN  IF got.threw THEN got
      ELSE IF statusExcluded(data) THEN Returned(<<>>)
      ELSE IF ~Has(data, "space") THEN Threw(<<>>)       \* TypeError reading data.space.name
      ELSE Returned(<< [
             title |-> data.title,
             text |-> stripHtml(data.body.storage.value),
             location |-> wikiUrl \o data.links.webui,
             spaceKey |-> data.space.key,
             spaceName |-> data.space.name,
             ancestors |-> << [title |-> data.space.name,
                               location |-> wikiUrl \o data.space.links.webui] >>
                           \o [a \in 1..Len(data.ancestors) |-> ancestorRef(data.ancestors[a])],
             lastModifiedBy |-> data.version.by.publicName,
             lastModified |-> data.version.when,
             lastModifiedFriendly |-> data.version.friendlyWhen ] >>)

\* Line 100 returns the promise of getDocumentInfo without awaiting it, so the try
\* block is left before the promise settles: its catch sees synchronous throws only,
\* and an async function has none.
tryCatches(outcome) == FALSE

\* the promise of limit(...) handed to Promise.all as it is, without .catch(...)
uncaughtPromise(document, res) ==
  LET outcome == getDocumentInfo(document, res)
      fromGet == getWarnings(res, document \o ExpandQuery)
  IN  IF ~outcome.threw
      THEN [limited |-> "fulfilled", rejected |-> FALSE, value |-> outcome.value,
            warnings |-> fromGet]
      ELSE [limited |-> "rejected", rejected |-> TRUE, value |-> <<>>, warnings |-> fromGet]

\* The promise of one document: limit(async () => {...}) and its .catch(...).
\* limited is how the promise of limit(...) settles, rejected whether the promise
\* handed to Promise.all rejects.
safePromise(document, res) ==
  LET outcome == getDocumentInfo(document, res)
      fromGet == getWarnings(res, document \o ExpandQuery)
  IN  IF ~outcome.threw
      THEN [limited |-> "fulfilled", rejected |-> FALSE, value |-> outcome.value,
            warnings |-> fromGet]
      ELSE IF tryCatches(outcome)
      THEN [limited |-> "fulfilled", rejected |-> FALSE, value |-> <<>>,
            warnings |-> fromGet \o << Warning("execute:102", document) >>]
      ELSE [limited |-> "rejected", rejected |-> FALSE, value |-> <<>>,
            warnings |-> fromGet \o << Warning("execute:111", outcome.errorUrl) >>]

-----------------------------------------------------------------------------
(* The run: execute() *)

Event(ev, n, url, res) == [ev |-> ev, n |-> n, url |-> url, res |-> res]
NoRes == [ok |-> FALSE]

spaceUrl(space) == wikiUrl \o ContentQuery \o space

\* the spaces taken from the end of the list
spaceAtFromEnd(list, idx) == list[Len(list) + 1 - idx]

\* for (const space of spaces): the space of the idx-th iteration
spaceAt(list, idx) == list[idx]

\* the references of the last list response alone
replaceResults(list, results) == [i \in 1..Len(results) |-> results[i].links.self]

\* documentsList.push(...data.results.map(result => result._links.self))
pushResults(list, results) == list \o [i \in 1..Len(results) |-> results[i].links.self]

\* values collected as the promises settle
gatherSlotByCompletion(i, settledBefore) == settledBefore + 1

\* Promise.all: the value of the i-th promise is the i-th element of the result,
\* however many promises settled before it
gatherSlot(i, settledBefore) == i

InitWith(LimitOptions, SpacesOptions, ClientOptions) ==
  /\ parallelismLimit \in {fromConfigLimit(o) : o \in LimitOptions}
  /\ spaces \in SpacesOptions
  /\ catalogClient \in ClientOptions
  /\ pc = "getSpaces"
  /\ spacesList = <<>>
  /\ spaceIdx = 0
  /\ allDocuments = <<>>
  /\ next = FALSE
  /\ requestUrl = <<>>
  /\ documentsList = <<>>
  /\ listInFlight = FALSE
  /\ queue = <<>>
  /\ activeCount = 0
  /\ task = <<>>
  /\ settled = <<>>
  /\ documents = <<>>
  /\ output = <<>>
  /\ warnings = <<>>
  /\ trace = <<>>

\* one function too many
hasSlotOffByOne(active, concurrency) == active <= concurrency

\* pLimit: a queued function starts when activeCount < concurrency
hasSlot(active, concurrency) == active < concurrency

\* pLimit's queue after the calls limit(...) of documentsInfo, or after next():
\* functions leave the queue in order while a slot is free.  Starting one runs
\* getDocumentInfo up to its fetch, so the page-detail request is issued.
RECURSIVE startQueued(_, _, _, _, _)
startQueued(q, active, tasks, events, list) ==
  IF q # <<>> /\ hasSlot(active, parallelismLimit)
  THEN startQueued(Tail(q), active + 1, [tasks EXCEPT ![Head(q)] = "running"],
                   Append(events, Event("detailIssue", Head(q),
                                        list[Head(q)] \o ExpandQuery, NoRes)),
                   list)
  ELSE [queue |-> q, activeCount |-> active, task |-> tasks, trace |-> events]

\* getDocumentsFromSpaces has returned list: execute builds limit, documentsInfo, safePromises
StartTransforms(list, events) ==
  LET n == Len(list)
      started == startQueued([i \in 1..n |-> i], 0, [i \in 1..n |-> "queued"], events, list)
  IN  /\ allDocuments' = list
      /\ pc' = "transform"
      /\ queue' = started.queue
      /\ activeCount' = started.activeCount
      /\ task' = started.task
      /\ settled' = [i \in 1..n |-> <<>>]
      /\ trace' = started.trace

\* for (const space of spaces): enter getDocumentsFromSpace for the space at idx, or
\* leave the loop and go on in execute
EnterSpace(idx, list, events) ==
  IF idx <= Len(spacesList')
  THEN /\ spaceIdx' = idx
       /\ allDocuments' = list
       /\ documentsList' = <<>>
       /\ next' = TRUE
       /\ requestUrl' = spaceUrl(spaceAt(spacesList', idx))
       /\ trace' = events
       /\ pc' = "enumerate"
       /\ UNCHANGED <<queue, activeCount, task, settled>>
  ELSE /\ spaceIdx' = idx
       /\ documentsList' = <<>>
       /\ next' = FALSE
       /\ requestUrl' = <<>>
       /\ StartTransforms(list, events)

\* const spacesList = await this.getSpaces(); then the first iteration of the loop
ExecuteGetSpaces(CatalogAnswers) ==
  /\ pc = "getSpaces"
  /\ \E answer \in (IF catalogClient THEN CatalogAnswers ELSE {[ok |-> TRUE, items |-> <<>>]}) :
       IF ~answer.ok
       THEN /\ pc' = "failed"
            /\ trace' = Append(trace, Event("failed", 0, <<>>, NoRes))
            /\ UNCHANGED <<spacesList, spaceIdx, allDocuments, next, requestUrl,
                           documentsList, queue, activeCount, task, settled>>
       ELSE /\ spacesList' = getSpaces(catalogClient, spaces, answer.items)
            /\ EnterSpace(1, <<>>, Append(trace, Event("resolved", 0, <<>>, answer)))
  /\ UNCHANGED <<parallelismLimit, spaces, catalogClient, listInFlight, documents,
                 output, warnings>>

ListFetches == Len(SelectSeq(trace, LAMBDA e : e.ev = "listIssue"))

\* while (next) { const data = await this.get(requestUrl): the request goes out
ListFetchIssue ==
  /\ pc = "enumerate"
  /\ next
  /\ ~listInFlight
  /\ ListFetches < MaxListFetches
  /\ listInFlight' = TRUE
  /\ trace' = Append(trace, Event("listIssue", spaceIdx, requestUrl, NoRes))
  /\ UNCHANGED <<parallelismLimit, spaces, catalogClient, pc, spacesList, spaceIdx,
                 allDocuments, next, requestUrl, documentsList, queue, activeCount,
                 task, settled, documents, output, warnings>>

\* the response arrives: the rest of the loop body, and what follows when the loop ends
ListFetchReturn(Responses) ==
  /\ pc = "enumerate"
  /\ listInFlight
  /\ \E res \in Responses :
       LET got == get(res, requestUrl)
           data == got.value
           events == Append(trace, Event("listReturn", spaceIdx, requestUrl, res))
           items == pushResults(documentsList, data.results)
       IN  /\ warnings' = warnings \o getWarnings(res, requestUrl)
           /\ listInFlight' = FALSE
           /\ UNCHANGED spacesList
           /\ IF got.threw
              THEN /\ pc' = "failed"
                   /\ trace' = Append(events, Event("failed", spaceIdx, <<>>, NoRes))
                   /\ UNCHANGED <<spaceIdx, allDocuments, next, requestUrl, documentsList,
                                  queue, activeCount, task, settled>>
              ELSE IF ~Has(data, "results")
              THEN EnterSpace(spaceIdx + 1, allDocuments \o documentsList, events)
              ELSE /\ Len(allDocuments) + Len(items) <= MaxDocs
                   /\ IF Has(data.links, "next") /\ Truthy(data.links.next)
                      THEN /\ requestUrl' = wikiUrl \o data.links.next
                           /\ documentsList' = items
                           /\ trace' = events
                           /\ UNCHANGED <<pc, spaceIdx, allDocuments, next, queue,
                                          activeCount, task, settled>>
                      ELSE EnterSpace(spaceIdx + 1, allDocuments \o items, events)
  /\ UNCHANGED <<parallelismLimit, spaces, catalogClient, documents, output>>

\* a page-detail fetch settles: the promise of that document settles, pLimit's next()
\* frees the slot and starts the head of the queue; a rejection reaching Promise.all
\* rejects the await of line 117 and the generator throws
TransformSettle(Responses) ==
  /\ pc = "transform"
  /\ \E i \in 1..Len(allDocuments) :
       /\ task[i] = "running"
       /\ \E res \in Responses[allDocuments[i]] :
            LET promise == safePromise(allDocuments[i], res)
                settledBefore == Cardinality({j \in 1..Len(task) :
                                               task[j] \in {"fulfilled", "rejected"}})
                started == startQueued(queue, activeCount - 1,
                                       [task EXCEPT ![i] = promise.limited],
                                       Append(trace, Event("detailSettle", i,
                                                           allDocuments[i] \o ExpandQuery, res)),
                                       allDocuments)
            IN  /\ settled' = [settled EXCEPT ![gatherSlot(i, settledBefore)] = promise.value]
                /\ warnings' = warnings \o promise.warnings
                /\ queue' = started.queue
                /\ activeCount' = started.activeCount
                /\ task' = started.task
                /\ IF promise.rejected
                   THEN /\ pc' = "failed"
                        /\ trace' = Append(started.trace, Event("failed", i, <<>>, NoRes))
                   ELSE /\ pc' = pc
                        /\ trace' = started.trace
  /\ UNCHANGED <<parallelismLimit, spaces, catalogClient, spacesList, spaceIdx,
                 allDocuments, next, requestUrl, documentsList, listInFlight,
                 documents, output>>

\* (await Promise.all(safePromises)).flat()
flatten(results) == Flat(results)

Gather ==
  /\ pc = "transform"
  /\ \A i \in 1..Len(allDocuments) : task[i] \in {"fulfilled", "rejected"}
  /\ documents' = flatten(settled)
  /\ pc' = "yield"
  /\ UNCHANGED <<parallelismLimit, spaces, catalogClient, spacesList, spaceIdx,
                 allDocuments, next, requestUrl, documentsList, listInFlight, queue,
                 activeCount, task, settled, output, warnings, trace>>

\* for (const document of documents) yield document
Yield ==
  /\ pc = "yield"
  /\ Len(output) < Len(documents)
  /\ output' = Append(output, documents[Len(output) + 1])
  /\ UNCHANGED <<parallelismLimit, spaces, catalogClient, pc, spacesList, spaceIdx,
                 allDocuments, next, requestUrl, documentsList, listInFlight, queue,
                 activeCount, task, settled, documents, warnings, trace>>

\* the generator returns
Finish ==
  /\ pc = "yield"
  /\ Len(output) = Len(documents)
  /\ pc' = "done"
  /\ UNCHANGED <<parallelismLimit, spaces, catalogClient, spacesList, spaceIdx,
                 allDocuments, next, requestUrl, documentsList, listInFlight, queue,
                 activeCount, task, settled, documents, output, warnings, trace>>

-----------------------------------------------------------------------------
(* Environments: what the configuration, the catalog and the wiki may hold *)

SpaceE == <<"E">>
SpaceS == <<"S">>
Body == <<"<", "p", ">", "H", "<", "/", "p", ">">>

CatalogFails == [ok |-> FALSE]
CatalogReturns(items) == [ok |-> TRUE, items |-> items]

FewCatalogAnswers == {CatalogFails, CatalogReturns(<< <<"E", ",", " ", "S">> >>)}

\* every listing is one response with 0..MaxDocs items
PlainListResponses ==
  {Json(ListData(TRUE, RefList(n), FALSE, <<>>)) : n \in 0..MaxDocs}

NextPaths == {<<>>, <<"/", "n">>}
AnyListResponses ==
  {NonOk, Unparsable}
    \cup {Json(ListData(FALSE, <<>>, hasNext, path)) :
            hasNext \in BOOLEAN, path \in NextPaths}
    \cup {Json(ListData(TRUE, RefList(n), hasNext, path)) :
            n \in 0..2, hasNext \in BOOLEAN, path \in NextPaths}

\* the answers to the page-detail fetch of each page
CurrentDetail == [ref \in RefSet |-> {Json(DetailData(ref, TRUE, "current", TRUE, Body))}]
AnyDetailResponses ==
  [ref \in RefSet |->
     {NonOk, Unparsable,
      Json(DetailData(ref, FALSE, "", FALSE, Body)),
      Json(DetailData(ref, TRUE, "archived", TRUE, Body)),
      Json(DetailData(ref, TRUE, "current", FALSE, Body)),
      Json(DetailData(ref, TRUE, "current", TRUE, Body))}]

\* The transform phase under every outcome of the page-detail fetches
Init == InitWith({0, 1, 2}, {<<SpaceE>>}, {FALSE})
Next ==
  \/ ExecuteGetSpaces(FewCatalogAnswers)
  \/ ListFetchIssue
  \/ ListFetchReturn(PlainListResponses)
  \/ TransformSettle(AnyDetailResponses)
  \/ Gather
  \/ Yield
  \/ Finish
Spec == Init /\ [][Next]_vars

\* Enumeration under every outcome of the list fetches
InitEnum == InitWith({2}, {<<SpaceE>>, <<SpaceE, SpaceS>>}, BOOLEAN)
NextEnum ==
  \/ ExecuteGetSpaces(FewCatalogAnswers)
  \/ ListFetchIssue
  \/ ListFetchReturn(AnyListResponses)
  \/ TransformSettle(CurrentDetail)
  \/ Gather
  \/ Yield
  \/ Finish
SpecEnum == InitEnum /\ [][NextEnum]_vars

\* Space resolution under every catalog answer: a word over the annotation alphabet
\* and "|" is cut at each "|" into the annotation values of the entities
AnnotationAlphabet == {"E", ",", " "}
AnyCatalogAnswers ==
  {CatalogFails, CatalogReturns(<<>>)}
    \cup {CatalogReturns(split(w, "|")) :
            w \in {v \in SeqsUpTo(AnnotationAlphabet \cup {"|"}, MaxAnnotationChars) :
                     Len(split(v, "|")) <= MaxEntities}}

InitSpaces == InitWith({1}, {<<>>, <<SpaceE>>, <<SpaceE, SpaceS, SpaceE>>}, BOOLEAN)
NextSpaces == ExecuteGetSpaces(AnyCatalogAnswers)
SpecSpaces == InitSpaces /\ [][NextSpaces]_vars

\* Tag stripping under every page body
BodyAlphabet == {"<", ">", "a", "/"}
AnyBodyDetail ==
  [ref \in RefSet |->
     {Json(DetailData(ref, TRUE, "current", TRUE, b)) : b \in SeqsUpTo(BodyAlphabet, MaxBodyLen)}]
OnePageList == {Json(ListData(TRUE, RefList(1), FALSE, <<>>))}

InitStrip == InitWith({1}, {<<SpaceE>>}, {FALSE})
NextStrip ==
  \/ ExecuteGetSpaces(FewCatalogAnswers)
  \/ ListFetchIssue
  \/ ListFetchReturn(OnePageList)
  \/ TransformSettle(AnyBodyDetail)
  \/ Gather
  \/ Yield
  \/ Finish
SpecStrip == InitStrip /\ [][NextStrip]_vars

-----------------------------------------------------------------------------
(* Reading the history of a run *)

EventsOf(ev) == SelectSeq(trace, LAMBDA e : e.ev = ev)
EventsOfAt(ev, n) == SelectSeq(trace, LAMBDA e : e.ev = ev /\ e.n = n)
Positions(ev) == {p \in 1..Len(trace) : trace[p].ev = ev}

\* the response the page-detail fetch of the i-th page reference settled with
DetailSettled(i) == EventsOfAt("detailSettle", i) # <<>>
DetailResponse(i) == EventsOfAt("detailSettle", i)[1].res

IsJson(res) == res.ok /\ res.parsable
StatusOf(res) == IF Has(res.json, "status") THEN res.json.status ELSE "absent"

-----------------------------------------------------------------------------
(* C9 *)

\* a tag at i..j: '<', one or more characters other than '>', '>'
IsTag(s, i, j) ==
  /\ 1 <= i /\ j <= Len(s) /\ j >= i + 2
  /\ s[i] = "<" /\ s[j] = ">"
  /\ \A k \in (i + 1)..(j - 1) : s[k] # ">"
HasTag(s) == \E i \in 1..Len(s), j \in 1..Len(s) : IsTag(s, i, j)
Tags(s) == {t \in (1..Len(s)) \X (1..Len(s)) : IsTag(s, t[1], t[2])}
Disjoint(spans) ==
  \A t \in spans, u \in spans : t = u \/ t[2] < u[1] \/ u[2] < t[1]
Without(s, spans) ==
  LET kept(i) == \A t \in spans : i < t[1] \/ i > t[2]
      F[i \in 0..Len(s)] ==
        IF i = 0 THEN <<>> ELSE IF kept(i) THEN Append(F[i - 1], s[i]) ELSE F[i - 1]
  IN  F[Len(s)]

HelloWorldBody ==
  <<"<", "p", ">", "H", "e", "l", "l", "o", " ", "<", "b", ">", "W", "o", "r", "l", "d",
    "<", "/", "b", ">", "<", "/", "p", ">">>
HelloWorldText == <<"H", "e", "l", "l", "o", " ", "W", "o", "r", "l", "d">>

\* C9: the text of every document in the output holds no tag ('<', one or more
\* characters other than '>', '>'), so stripping it again changes nothing; it is the
\* body with some disjoint tags cut out and every other character kept in order; and
\* the body <p>Hello <b>World</b></p> gives Hello World.
C9_TagStripping ==
  /\ stripHtml(HelloWorldBody) = HelloWorldText
  /\ \A k \in 1..Len(output) :
       LET body == DetailResponse(1).json.body.storage.value
           text == output[k].text
       IN  /\ ~HasTag(text)
           /\ stripHtml(text) = text
           /\ \E spans \in SUBSET Tags(body) :
                Disjoint(spans) /\ Without(body, spans) = text

\* a document was emitted whose body held two tags and text outside them
C9_Witness ==
  /\ Len(output) = 1
  /\ Cardinality(Tags(DetailResponse(1).json.body.storage.value)) >= 2
  /\ output[1].text # <<>>
  /\ Len(output[1].text) < Len(DetailResponse(1).json.body.storage.value)

-----------------------------------------------------------------------------
(* C8 *)

\* the catalog's answer of the run
Resolved == EventsOf("resolved") # <<>>
CatalogItems == EventsOf("resolved")[1].res.items

Commas(a) == {i \in 1..Len(a) : a[i] = ","}
\* the j-th token of a: what lies between the (j-1)-th and the j-th comma
TokenBounds(a, j) ==
  LET before == {i \in Commas(a) : Cardinality({c \in Commas(a) : c <= i}) = j - 1}
      after == {i \in Commas(a) : Cardinality({c \in Commas(a) : c <= i}) = j}
  IN  << IF before = {} THEN 1 ELSE (CHOOSE i \in before : TRUE) + 1,
         IF after = {} THEN Len(a) ELSE (CHOOSE i \in after : TRUE) - 1 >>
\* ... without the white space at its ends
TrimmedToken(a, j) ==
  LET b == TokenBounds(a, j)
      inked == {i \in b[1]..b[2] : ~IsWhiteSpace(a[i])}
  IN  IF inked = {} THEN <<>>
      ELSE LET lo == CHOOSE i \in inked : \A k \in inked : i <= k
               hi == CHOOSE i \in inked : \A k \in inked : i >= k
           IN  [k \in 1..(hi - lo + 1) |-> a[lo + k - 1]]
TokensOf(a) == [j \in 1..(Cardinality(Commas(a)) + 1) |-> TrimmedToken(a, j)]

\* C8: without a catalog client the spaces of a run are the configured list unchanged;
\* with one they are, entity after entity in the catalog's order, the comma-separated
\* tokens of each annotation value, trimmed, in order, duplicates kept -- whatever the
\* configured list holds; "Eng, Sales" and "Marketing" give Eng, Sales, Marketing.
C8_SpaceResolution ==
  /\ getSpaces(TRUE, <<SpaceE>>,
               << <<"E", "n", "g", ",", " ", "S", "a", "l", "e", "s">>,
                  <<"M", "a", "r", "k", "e", "t", "i", "n", "g">> >>)
       = << <<"E", "n", "g">>, <<"S", "a", "l", "e", "s">>,
            <<"M", "a", "r", "k", "e", "t", "i", "n", "g">> >>
  /\ Resolved =>
       IF catalogClient
       THEN spacesList = Flat([e \in 1..Len(CatalogItems) |-> TokensOf(CatalogItems[e])])
       ELSE spacesList = spaces

\* two entities, one of them holding two tokens with white space around a comma, and
\* a token resolved twice
C8_Witness ==
  /\ Resolved /\ catalogClient
  /\ Len(CatalogItems) = 2
  /\ \E e \in 1..2 : \E i \in Commas(CatalogItems[e]) :
       i < Len(CatalogItems[e]) /\ CatalogItems[e][i + 1] = " "
  /\ \E i, j \in 1..Len(spacesList) : i # j /\ spacesList[i] = spacesList[j] /\ spacesList[i] # <<>>
  /\ spacesList # spaces

-----------------------------------------------------------------------------
(* The transform phase: C1, C2, C4, C7, C10 *)

DocIndices == 1..Len(allDocuments)
\* the fetch answered with a page whose status is "current" and the transform built
\* its document; the transform failed
Succeeded(i) ==
  /\ DetailSettled(i) /\ IsJson(DetailResponse(i))
  /\ StatusOf(DetailResponse(i)) = "current" /\ Has(DetailResponse(i).json, "space")
TransformFailed(i) ==
  /\ DetailSettled(i)
  /\ \/ ~IsJson(DetailResponse(i))
     \/ StatusOf(DetailResponse(i)) = "current" /\ ~Has(DetailResponse(i).json, "space")
PageLocation(i) == wikiUrl \o allDocuments[i]
DocumentFields ==
  {"title", "text", "location", "spaceKey", "spaceName", "ancestors",
   "lastModifiedBy", "lastModified", "lastModifiedFriendly"}

\* C1: whatever the page-detail fetches answer (not ok, not JSON, a field missing, a
\* page), the run does not abort once the page references are known and can always
\* go on; when it is done, the output holds, for every page, as many documents as
\* there are references to it whose transform succeeded with status "current", all of
\* them whole, so a failed transform adds nothing.
C1_PerPageFailureIsolation ==
  /\ EventsOf("detailIssue") # <<>> => pc # "failed"
  /\ pc = "transform" =>
       \/ \E i \in DocIndices : task[i] = "running"
       \/ \A i \in DocIndices : task[i] \in {"fulfilled", "rejected"}
  /\ pc = "done" =>
       /\ Len(output) = Cardinality({i \in DocIndices : Succeeded(i)})
       /\ \A k \in 1..Len(output) : DOMAIN output[k] = DocumentFields
       /\ \A r \in 1..Len(Refs) :
            Cardinality({k \in 1..Len(output) : output[k].location = wikiUrl \o Refs[r]})
              = Cardinality({i \in DocIndices : allDocuments[i] = Refs[r] /\ Succeeded(i)})

\* a run is done in which one page answered not ok, one was not JSON, one lacked a
\* field, and another page gave its document
C1_Witness ==
  /\ pc = "done" /\ Len(output) = 1 /\ Len(allDocuments) = 3
  /\ \E i \in DocIndices : TransformFailed(i) /\ ~DetailResponse(i).ok
  /\ \E i \in DocIndices : TransformFailed(i) /\ DetailResponse(i).ok

IssuedDetail == Len(EventsOf("detailIssue"))
SettledDetail == Len(EventsOf("detailSettle"))
InFlight == IssuedDetail - SettledDetail

\* C2: the page-detail fetches issued and not yet settled are never more than the
\* parallelism limit (so never two with limit 1); they are exactly the transforms
\* holding a slot, a slot being held from the issue of the fetch until it settles.
C2_BoundedConcurrency ==
  /\ InFlight <= parallelismLimit
  /\ parallelismLimit >= 1
  /\ pc \in {"transform", "yield", "done"} =>
       /\ activeCount = InFlight
       /\ \A i \in DocIndices :
            /\ task[i] = "running" <=> (EventsOfAt("detailIssue", i) # <<>> /\ ~DetailSettled(i))
            /\ task[i] = "queued" <=> EventsOfAt("detailIssue", i) = <<>>
       /\ queue # <<>> => InFlight = parallelismLimit

\* limit 2, three pages: one fetch has settled, its slot was taken by the queued
\* third page, and two fetches are in flight
C2_Witness ==
  /\ parallelismLimit = 2 /\ Len(allDocuments) = 3
  /\ SettledDetail = 1 /\ InFlight = 2 /\ task[3] = "running"

\* C4: a page-detail answer whose status is absent or is not "current" gives no
\* document and no error, whatever else it lacks; so every document gathered or
\* yielded is the one built from an answer whose status is "current".
C4_OnlyCurrentPages ==
  /\ \A i \in DocIndices :
       (DetailSettled(i) /\ IsJson(DetailResponse(i))
          /\ StatusOf(DetailResponse(i)) # "current")
         => task[i] = "fulfilled" /\ settled[i] = <<>>
  /\ pc = "transform" =>
       \A i \in DocIndices :
         settled[i] # <<>> =>
           IsJson(DetailResponse(i)) /\ StatusOf(DetailResponse(i)) = "current"
  /\ \A k \in 1..Len(output) :
       \E i \in DocIndices :
         /\ IsJson(DetailResponse(i)) /\ StatusOf(DetailResponse(i)) = "current"
         /\ settled[i] = <<output[k]>>

\* a run is done with a page without status, an archived page and a current one,
\* and one document
C4_Witness ==
  /\ pc = "done" /\ Len(output) = 1
  /\ \E i \in DocIndices : IsJson(DetailResponse(i)) /\ StatusOf(DetailResponse(i)) = "absent"
  /\ \E i \in DocIndices : IsJson(DetailResponse(i)) /\ StatusOf(DetailResponse(i)) = "archived"

SucceededInOrder == SelectSeq([i \in DocIndices |-> i], Succeeded)

\* C7: the documents gathered are those of the pages whose transform succeeded, in
\* the order the page references were enumerated, whatever order the fetches settled
\* in; nothing is yielded before every transform has settled, and the output is the
\* gathered sequence from its start.
C7_CompletionOrderInvisible ==
  /\ output # <<>> => \A i \in DocIndices : DetailSettled(i)
  /\ pc \in {"yield", "done"} =>
       /\ \A i \in DocIndices : DetailSettled(i)
       /\ Len(documents) = Len(SucceededInOrder)
       /\ \A k \in 1..Len(documents) :
            documents[k].location = PageLocation(SucceededInOrder[k])
  /\ Len(output) <= Len(documents)
  /\ \A k \in 1..Len(output) : output[k] = documents[k]
  /\ pc = "done" => output = documents

\* the second page settled before the first, and both documents came out
C7_Witness ==
  /\ pc = "done" /\ Len(output) >= 2
  /\ \E p, q \in Positions("detailSettle") : p < q /\ trace[p].n = 2 /\ trace[q].n = 1

Names(w, i) == w.url \in {allDocuments[i], allDocuments[i] \o ExpandQuery}

\* C10: for every failed transform there is a warning that names the page.
C10_FailureWarningNamesPage ==
  \A i \in DocIndices :
    TransformFailed(i) => \E w \in 1..Len(warnings) : Names(warnings[w], i)

-----------------------------------------------------------------------------
(* Enumeration: C3, C5, C6 *)

Issues(sp) == EventsOfAt("listIssue", sp)
Returns(sp) == EventsOfAt("listReturn", sp)
ListPositions == Positions("listIssue") \cup Positions("listReturn")

HasResults(res) == IsJson(res) /\ Has(res.json, "results")
HasNextLink(res) == Has(res.json.links, "next")
HasNextPath(res) == HasNextLink(res) /\ res.json.links.next # <<>>
SelfLinks(res) == [i \in 1..Len(res.json.results) |-> res.json.results[i].links.self]

\* the answers of space sp so far are a chain: all with results, all but the last with
\* a next path, the last without next link
IsChain(sp) ==
  LET r == Returns(sp)
  IN  /\ r # <<>>
      /\ \A i \in 1..Len(r) :
           /\ HasResults(r[i].res)
           /\ i < Len(r) => HasNextPath(r[i].res)
      /\ ~HasNextLink(r[Len(r)].res)

\* the self links of the answers of space sp that carried results, in order
ItemsOf(sp) ==
  Flat([i \in 1..Len(Returns(sp)) |->
          IF HasResults(Returns(sp)[i].res) THEN SelfLinks(Returns(sp)[i].res) ELSE <<>>])
RECURSIVE ItemsBefore(_)
ItemsBefore(sp) == IF sp <= 1 THEN <<>> ELSE ItemsBefore(sp - 1) \o ItemsOf(sp - 1)

\* C3: when the answers of a space are a chain of k list responses, its enumeration
\* has ended after exactly k list fetches, the first to the space's content URL and
\* each later one to wikiUrl + the next path of the answer before, and the references
\* it added to the run's list are the self links of answer 1, then 2, ..., then k.
C3_Pagination ==
  Resolved =>
    \A sp \in 1..Len(spacesList) :
      IsChain(sp) =>
        LET k == Len(Returns(sp))
        IN  /\ spaceIdx > sp
            /\ Len(Issues(sp)) = k
            /\ Issues(sp)[1].url = spaceUrl(spacesList[sp])
            /\ \A i \in 1..(k - 1) :
                 Issues(sp)[i + 1].url = wikiUrl \o Returns(sp)[i].res.json.links.next
            /\ Len(allDocuments) >= Len(ItemsBefore(sp)) + Len(ItemsOf(sp))
            /\ SubSeq(allDocuments, Len(ItemsBefore(sp)) + 1,
                      Len(ItemsBefore(sp)) + Len(ItemsOf(sp))) = ItemsOf(sp)

\* one space answered with a chain of two responses that both held items, another
\* with a single response
C3_Witness ==
  /\ Resolved /\ Len(spacesList) = 2
  /\ IsChain(1) /\ Len(Returns(1)) = 2
  /\ Returns(1)[1].res.json.results # <<>> /\ Returns(1)[2].res.json.results # <<>>
  /\ IsChain(2) /\ Len(Returns(2)) = 1 /\ Returns(2)[1].res.json.results # <<>>

\* C5: once a list fetch has answered not ok, the run has failed at that very step:
\* nothing follows it, no later space is enumerated, no page-detail fetch is ever
\* issued, and nothing is gathered or yielded, whatever earlier spaces had listed.
C5_NoSpaceLevelIsolation ==
  \A p \in Positions("listReturn") :
    ~trace[p].res.ok =>
      /\ pc = "failed"
      /\ Len(trace) = p + 1 /\ trace[p + 1].ev = "failed"
      /\ ~listInFlight
      /\ \A q \in ListPositions : trace[q].n <= trace[p].n
      /\ EventsOf("detailIssue") = <<>>
      /\ documents = <<>> /\ output = <<>>

\* the first of two spaces had listed pages when a list fetch of the second answered
\* not ok
C5_Witness ==
  /\ pc = "failed" /\ Len(spacesList) = 2 /\ allDocuments # <<>>
  /\ \E p \in Positions("listReturn") : trace[p].n = 2 /\ ~trace[p].res.ok

\* C6: every list fetch comes after space resolution; list fetches go out one at a
\* time, each after the answer to the one before, space after space in the order
\* the spaces were resolved, the first fetch of the n-th enumerated space being for
\* the n-th resolved space; and every page-detail fetch comes after the last list
\* answer, when every space has been enumerated.
C6_PhaseOrdering ==
  /\ \A p \in 1..Len(trace) : trace[p].ev = "resolved" => p = 1
  /\ \A p \in ListPositions : p > 1 /\ trace[1].ev = "resolved"
  /\ \A p \in Positions("listIssue") :
       /\ trace[p - 1].ev \in {"resolved", "listReturn"}
       /\ trace[p - 1].n <= trace[p].n
       /\ trace[p - 1].n < trace[p].n =>
            /\ trace[p].n = trace[p - 1].n + 1
            /\ trace[p].url = spaceUrl(spacesList[trace[p].n])
  /\ \A p \in Positions("listReturn") :
       trace[p - 1].ev = "listIssue" /\ trace[p - 1].n = trace[p].n
  /\ listInFlight <=> (trace # <<>> /\ trace[Len(trace)].ev = "listIssue")
  /\ \A p \in Positions("detailIssue") : \A q \in ListPositions : q < p
  /\ EventsOf("detailIssue") # <<>> =>
       /\ spaceIdx = Len(spacesList) + 1
       /\ \A sp \in 1..Len(spacesList) : Returns(sp) # <<>>
       /\ allDocuments = ItemsBefore(Len(spacesList) + 1)

\* two spaces were enumerated, the first over two list fetches, and the page-detail
\* fetches of pages of both spaces have gone out
C6_Witness ==
  /\ Len(spacesList) = 2 /\ Len(Returns(1)) = 2 /\ Len(Returns(2)) = 1
  /\ ItemsOf(1) # <<>> /\ ItemsOf(2) # <<>>
  /\ Len(EventsOf("detailIssue")) >= 2

====
